---- MODULE Spec2Model ----
\* Workflow patterns over a structured inference service:
\*   1-prompt-chaining.py                     proces_calender_request   ("chain1")
\*   2-prompt-chaining-openai-compaitable.py  process_calendar_request  ("chain2")
\*   3-routing.py                             process_assistant_request ("router")
\*   4-parallelization.py                     validate_request          ("parallel")
\* One behaviour is one request handled by one of the four entry functions.
\* A step runs the entry function from one blocking inference call to the next;
\* for validate_request, which runs on an asyncio event loop, a step is one
\* callback of the loop.
EXTENDS Integers, Sequences, FiniteSets, TLC

-----------------------------------------------------------------------------
\* Confidence scores are floats in the source; they are kept in hundredths,
\* so 0.7 is 70 and the documented range [0, 1] is 0..100.  The schemas accept
\* any float, NaN included.

\* the literal 0.7 of every gate (1:138, 2:156, 3:203, 4:106)
Threshold == 70
\* 'Confidence score between 0 and 1'
ScoreMin == 0
ScoreMax == 100
\* how far outside [0, 1] a returned score may lie (no Field constrains it)
Over == 2

\* the numbers a score may be
Numbers == (ScoreMin - Over)..(ScoreMax + Over)

\* float('nan'): a value off the number line, kept apart from every number
NaN == ScoreMin - Over - 1

Scores == Numbers \cup {NaN}

\* Python's <, > and >= on floats: every ordered comparison with NaN is False
Lt(a, b) == a # NaN /\ b # NaN /\ a < b
Gt(a, b) == a # NaN /\ b # NaN /\ a > b
Ge(a, b) == a # NaN /\ b # NaN /\ a >= b

Chains == {"chain1", "chain2"}
Programs == Chains \cup {"router", "parallel"}

UserInputs == {"u1", "u2"}
Descriptions == {"d1", "d2"}
EventNames == {"e1", "e2"}
Messages == {"m1"}
Places == {"bedroom"}
RiskFlagLists == {<<>>, <<"prompt injection">>}

-----------------------------------------------------------------------------
\* Values

\* Python's None
None == [type |-> "None"]

Text(s) == [type |-> "text", of |-> s]

\* the confirmation text built from a fixed event instead of event_details
ModelDumpStr_Stale(d) == [type |-> "dump", of |-> "e1"]

\* str(event_details.model_dump()): the text sent to the confirmation call
ModelDumpStr(d) == [type |-> "dump", of |-> d.name]

\* what a function hands to its caller: a value, or a raised exception
Ok(v) == [ok |-> TRUE, value |-> v, error |-> "none"]
Err(e) == [ok |-> FALSE, value |-> None, error |-> e]

NoOutcome == [kind |-> "running", value |-> None, error |-> "none"]
Returned(v) == [kind |-> "returned", value |-> v, error |-> "none"]
Raised(e) == [kind |-> "raised", value |-> None, error |-> e]

\* one issued inference call: the function that issued it and the user message
Call(f, a) == [fn |-> f, arg |-> a]

-----------------------------------------------------------------------------
\* The inference service.  A reply is a transport failure, content that does
\* not validate against the schema, an empty/refused content, or JSON content.
Unavailable == [kind |-> "unavailable", body |-> None]
Malformed == [kind |-> "malformed", body |-> None]
Empty == [kind |-> "empty", body |-> None]
Json(b) == [kind |-> "json", body |-> b]

Responses(bodies) == {Unavailable, Malformed, Empty} \cup {Json(b) : b \in bodies}

\* ollama: chat(...) then Schema.model_validate_json(response.message.content)
ParseOllama(resp) ==
    CASE resp.kind = "unavailable" -> Err("ServiceUnavailable")
      [] resp.kind = "malformed" -> Err("SchemaViolation")
      [] resp.kind = "empty" -> Err("SchemaViolation")
      [] OTHER -> Ok(resp.body)

\* openai: client.beta.chat.completions.parse(..., response_format=Schema).
\* The value is the message's `parsed` field, which is None for empty content.
\* Valid is the set of bodies the schema accepts.
ParseOpenAI(resp, Valid) ==
    CASE resp.kind = "unavailable" -> Err("ServiceUnavailable")
      [] resp.kind = "malformed" -> Err("SchemaViolation")
      [] resp.kind = "empty" -> Ok(None)
      [] OTHER -> IF resp.body \in Valid THEN Ok(resp.body) ELSE Err("SchemaViolation")

\* response.choices[0].message.<attr>: the parsed message has a field `parsed`
MessageAttr(attr, r) ==
    IF ~r.ok THEN r
    ELSE IF attr = "parsed" THEN r ELSE Err("AttributeError")

\* attribute access on a parsed result (logger f-strings, model_dump_json):
\* None has no fields
Attr(r) == IF r.ok /\ r.value = None THEN Err("AttributeError") ELSE r

-----------------------------------------------------------------------------
\* Chains: schemas

\* chain1 spells the flag is_calender_event and carries a description
EventValidation1 ==
    [type : {"EventValidation"}, description : Descriptions,
     is_calender_event : BOOLEAN, confidence_score : Scores]
EventValidation2 ==
    [type : {"EventValidation"}, is_calendar_event : BOOLEAN, confidence_score : Scores]
EventValidation(p) == IF p = "chain1" THEN EventValidation1 ELSE EventValidation2

EventDetails == [type : {"EventDetails"}, name : EventNames]
EventConfirmation == [type : {"EventConfirmation"}, confirmation_message : Messages]

\* the calendar flag of a validation result, under either spelling
IsCalendarEvent(p, v) == IF p = "chain1" THEN v.is_calender_event ELSE v.is_calendar_event

\* Chains: the three stage functions, from the service's reply to the result
validate_event(p, resp) ==
    IF p = "chain1" THEN ParseOllama(resp)
    ELSE Attr(MessageAttr("parsed", ParseOpenAI(resp, EventValidation2)))

extract_event(p, resp) ==
    IF p = "chain1" THEN ParseOllama(resp)
    ELSE Attr(MessageAttr("parsed", ParseOpenAI(resp, EventDetails)))

\* the confirmation stage catching its exception and returning None
generate_confirmation_Swallow(p, resp) ==
    LET r == IF p = "chain1" THEN ParseOllama(resp)
             ELSE MessageAttr("parsed", ParseOpenAI(resp, EventConfirmation))
    IN IF r.ok THEN r ELSE Ok(None)

\* chain2 returns message.parsed untouched, so an empty content yields None
generate_confirmation(p, resp) ==
    IF p = "chain1" THEN ParseOllama(resp)
    ELSE MessageAttr("parsed", ParseOpenAI(resp, EventConfirmation))

\* the gate with the flag left out of the condition
ChainGateFails_NoFlag(p, validation) == Lt(validation.confidence_score, Threshold)

\* the gate: TRUE when the request is rejected
ChainGateFails(p, validation) ==
    (~IsCalendarEvent(p, validation)) \/ Lt(validation.confidence_score, Threshold)

ExtractFn(p) == IF p = "chain1" THEN "extract_event_details" ELSE "extract_event"

\* the text logged on a rejected gate: 'Validation failed - ...' (1:139-141),
\* 'Gate check failed - ...' (2:158-160)
GateWarning(p) == IF p = "chain1" THEN "Validation failed" ELSE "Gate check failed"

-----------------------------------------------------------------------------
\* Router: schemas

\* the Literal of AssistantRequestType.request_type
RequestTypes == {"light_config", "door_config", "entertainment_config", "other"}
\* category strings the service may put in its JSON; the last is not in the Literal
RawRequestTypes == RequestTypes \cup {"thermostat_config"}

AssistantRequestType ==
    [type : {"AssistantRequestType"}, request_type : RequestTypes,
     confidence_score : Scores, description : Descriptions]
RawAssistantRequestType ==
    [type : {"AssistantRequestType"}, request_type : RawRequestTypes,
     confidence_score : Scores, description : Descriptions]

LightConfigDetails == [type : {"LightConfigDetails"}, place : Places, light_type : {"warm", "cool"}]
DoorConfigDetails == [type : {"DoorConfigDetails"}, place : Places, action : {"lock", "unlock"}]
\* genre is Optional[str]: "" stands for None
EntertainmentConfigDetails ==
    [type : {"EntertainmentConfigDetails"}, action : {"play", "stop", "pause"}, genre : {"jazz", ""}]

AssistantResponse(status, message) ==
    [type |-> "AssistantResponse", status |-> status, message |-> message]

Handlers == {"handle_light_config", "handle_door_config", "handle_entertainment_config"}

route_agent_request(resp) == Attr(MessageAttr("parsed", ParseOpenAI(resp, AssistantRequestType)))

handle_light_config(resp) ==
    LET r == Attr(MessageAttr("parsed", ParseOpenAI(resp, LightConfigDetails))) IN
    IF ~r.ok THEN r
    ELSE Ok(AssistantResponse("success",
            <<"Light configuration change on", r.value.place, "to", r.value.light_type>>))

handle_door_config(resp) ==
    LET r == Attr(MessageAttr("parsed", ParseOpenAI(resp, DoorConfigDetails))) IN
    IF ~r.ok THEN r
    ELSE Ok(AssistantResponse("success",
            <<"Door configuration change on", r.value.place, "to", r.value.action>>))

handle_entertainment_config(resp) ==
    LET r == Attr(MessageAttr("parsed", ParseOpenAI(resp, EntertainmentConfigDetails))) IN
    IF ~r.ok THEN r
    ELSE Ok(AssistantResponse("success",
            <<"Entertainment configuration change to", r.value.action, r.value.genre>>))

HandlerSchema(h) ==
    CASE h = "handle_light_config" -> LightConfigDetails
      [] h = "handle_door_config" -> DoorConfigDetails
      [] OTHER -> EntertainmentConfigDetails

Handle(h, resp) ==
    CASE h = "handle_light_config" -> handle_light_config(resp)
      [] h = "handle_door_config" -> handle_door_config(resp)
      [] OTHER -> handle_entertainment_config(resp)

\* the confidence check with the comparison reversed
RouterGateFails_Reversed(route_result) == Gt(route_result.confidence_score, Threshold)

\* the confidence check: TRUE when the request is rejected
RouterGateFails(route_result) == Lt(route_result.confidence_score, Threshold)

\* the dispatch with the door branch calling the light handler
Dispatch_WrongHandler(request_type) ==
    CASE request_type = "light_config" -> "handle_light_config"
      [] request_type = "door_config" -> "handle_light_config"
      [] request_type = "entertainment_config" -> "handle_entertainment_config"
      [] OTHER -> "none"

\* the if/elif/else on request_type: the handler called, "none" for the else branch
Dispatch(request_type) ==
    CASE request_type = "light_config" -> "handle_light_config"
      [] request_type = "door_config" -> "handle_door_config"
      [] request_type = "entertainment_config" -> "handle_entertainment_config"
      [] OTHER -> "none"

\* a logger.warning record
Warning(msg, flags) == [msg |-> msg, flags |-> flags]

-----------------------------------------------------------------------------
\* Parallel validation: schemas

AssistantRequestValidation ==
    [type : {"AssistantRequestValidation"}, is_assistant_request : BOOLEAN,
     confidence_score : Scores]
SecurityCheck == [type : {"SecurityCheck"}, is_safe : BOOLEAN, risk_flags : RiskFlagLists]

Tasks == {"validate_assistant_request", "check_security"}
\* the awaitables in the order they are handed to asyncio.gather
TaskOrder == <<"validate_assistant_request", "check_security">>

TaskSchema(t) ==
    IF t = "validate_assistant_request" THEN AssistantRequestValidation ELSE SecurityCheck

\* line 71 reads message.parserd
validate_assistant_request(resp) ==
    MessageAttr("parserd", ParseOpenAI(resp, AssistantRequestValidation))

check_security(resp) == MessageAttr("parsed", ParseOpenAI(resp, SecurityCheck))

RunTask(t, resp) ==
    IF t = "validate_assistant_request" THEN validate_assistant_request(resp)
    ELSE check_security(resp)

\* a coroutine: its position, the reply its inference call got, what it handed back
NoReply == [kind |-> "none", body |-> None]
NotStarted == [st |-> "none", reply |-> NoReply, result |-> Ok(None)]
Awaiting == [st |-> "awaiting", reply |-> NoReply, result |-> Ok(None)]
Finished(resp, r) ==
    [st |-> IF r.ok THEN "returned" ELSE "raised", reply |-> resp, result |-> r]

\* a callback the event loop has been asked to run (call_soon): the first step
\* of a gathered coroutine, its wakeup once its inference call is answered,
\* gather's _done_callback for it, or the wakeup of validate_request
Cb(kind, of) == [cb |-> kind, of |-> of]
Resume == Cb("resume", "validate_request")

\* the future of asyncio.gather(a, b): it counts the children whose
\* _done_callback has run; the first child exception resolves it at once,
\* otherwise it resolves when the count reaches the number of children.
GatherPending == [state |-> "pending", exc |-> "none", nfinished |-> 0]

\* gather(..., return_exceptions=True): resolves only when every child is done
GatherOnDone_WaitAll(g, r) ==
    LET n == g.nfinished + 1 IN
    IF g.state # "pending" THEN [g EXCEPT !.nfinished = n]
    ELSE IF n = Cardinality(Tasks) THEN [state |-> "result", exc |-> "none", nfinished |-> n]
    ELSE [g EXCEPT !.nfinished = n]

\* gather's _done_callback for a child that handed back r
GatherOnDone(g, r) ==
    LET n == g.nfinished + 1 IN
    IF g.state # "pending" THEN [g EXCEPT !.nfinished = n]
    ELSE IF ~r.ok THEN [state |-> "exception", exc |-> r.error, nfinished |-> n]
    ELSE IF n = Cardinality(Tasks) THEN [state |-> "result", exc |-> "none", nfinished |-> n]
    ELSE [g EXCEPT !.nfinished = n]

\* lines 104-108
IsValid(arv, sc) ==
    /\ arv.is_assistant_request
    /\ Gt(arv.confidence_score, Threshold)
    /\ sc.is_safe

\* lines 110-116: the warnings logged for a pair of check results
CombineWarnings(arv, sc) ==
    IF IsValid(arv, sc) THEN <<>>
    ELSE <<Warning("Validation failed", <<>>)>>
         \o (IF sc.risk_flags # <<>> THEN <<Warning("Security flags", sc.risk_flags)>> ELSE <<>>)

\* validate_request after the await: the gather future's exception is raised,
\* else the two results are combined (a None check result has no fields)
validate_request(g, arv, sc) ==
    IF g.state = "exception" THEN Err(g.exc)
    ELSE IF arv = None \/ sc = None THEN Err("AttributeError")
    ELSE Ok([type |-> "bool", is_valid |-> IsValid(arv, sc)])

-----------------------------------------------------------------------------
VARIABLES
    prog,          \* the entry function handling the request
    user_input,    \* its argument
    pc,            \* position of the entry function
    calls,         \* inference calls issued so far, in order
    replies,       \* the service's replies, in order of arrival
    validation,    \* chain: local `validation`
    event_details, \* chain: local `event_details`
    route_result,  \* router: local `route_result`
    task,          \* parallel: the two coroutines handed to asyncio.gather
    gather,        \* parallel: the future validate_request awaits
    ready,         \* parallel: the event loop's queue of callbacks, oldest first
    outcome,       \* what the entry function handed to its caller
    warnings       \* logger.warning records, in order

vars == <<prog, user_input, pc, calls, replies, validation, event_details,
          route_result, task, gather, ready, outcome, warnings>>

chainVars == <<validation, event_details>>
parVars == <<task, gather, ready>>

Init ==
    /\ prog \in Programs
    /\ user_input \in UserInputs
    /\ pc = "Start"
    /\ calls = <<>>
    /\ replies = <<>>
    /\ validation = None
    /\ event_details = None
    /\ route_result = None
    /\ task = [t \in Tasks |-> NotStarted]
    /\ gather = GatherPending
    /\ ready = <<>>
    /\ outcome = NoOutcome
    /\ warnings = <<>>

-----------------------------------------------------------------------------
\* proces_calender_request / process_calendar_request

\* entry of the chain up to the first inference call
ChainStart ==
    /\ prog \in Chains
    /\ pc = "Start"
    /\ pc' = "Validating"
    /\ calls' = Append(calls, Call("validate_event", Text(user_input)))
    /\ UNCHANGED <<prog, user_input, replies, chainVars, route_result, parVars, outcome, warnings>>

\* validate_event returns (or raises); gate check; extraction call issued
ChainValidated ==
    /\ prog \in Chains
    /\ pc = "Validating"
    /\ \E resp \in Responses(EventValidation(prog)) :
        LET r == validate_event(prog, resp) IN
        /\ replies' = Append(replies, resp)
        /\ IF ~r.ok
           THEN /\ pc' = "Failed"
                /\ outcome' = Raised(r.error)
                /\ UNCHANGED <<calls, validation, warnings>>
           ELSE /\ validation' = r.value
                /\ IF ChainGateFails(prog, r.value)
                   THEN /\ pc' = "Rejected"
                        /\ outcome' = Returned(None)
                        /\ warnings' = Append(warnings, Warning(GateWarning(prog), <<>>))
                        /\ UNCHANGED calls
                   ELSE /\ pc' = "Extracting"
                        /\ calls' = Append(calls, Call(ExtractFn(prog), Text(user_input)))
                        /\ UNCHANGED <<outcome, warnings>>
    /\ UNCHANGED <<prog, user_input, event_details, route_result, parVars>>

\* the extraction call returns (or raises); confirmation call issued
ChainExtracted ==
    /\ prog \in Chains
    /\ pc = "Extracting"
    /\ \E resp \in Responses(EventDetails) :
        LET r == extract_event(prog, resp) IN
        /\ replies' = Append(replies, resp)
        /\ IF ~r.ok
           THEN /\ pc' = "Failed"
                /\ outcome' = Raised(r.error)
                /\ UNCHANGED <<calls, event_details>>
           ELSE /\ event_details' = r.value
                /\ pc' = "Confirming"
                /\ calls' = Append(calls, Call("generate_confirmation", ModelDumpStr(r.value)))
                /\ UNCHANGED outcome
    /\ UNCHANGED <<prog, user_input, validation, route_result, parVars, warnings>>

\* generate_confirmation returns (or raises); the chain returns its result
ChainConfirmed ==
    /\ prog \in Chains
    /\ pc = "Confirming"
    /\ \E resp \in Responses(EventConfirmation) :
        LET r == generate_confirmation(prog, resp) IN
        /\ replies' = Append(replies, resp)
        /\ IF ~r.ok
           THEN /\ pc' = "Failed"
                /\ outcome' = Raised(r.error)
           ELSE /\ pc' = "Done"
                /\ outcome' = Returned(r.value)
    /\ UNCHANGED <<prog, user_input, calls, chainVars, route_result, parVars, warnings>>

-----------------------------------------------------------------------------
\* process_assistant_request

\* entry of the router up to the classification call
RouterStart ==
    /\ prog = "router"
    /\ pc = "Start"
    /\ pc' = "Routing"
    /\ calls' = Append(calls, Call("route_agent_request", Text(user_input)))
    /\ UNCHANGED <<prog, user_input, replies, chainVars, route_result, parVars, outcome, warnings>>

\* route_agent_request returns (or raises); confidence check; dispatch
RouterRouted ==
    /\ prog = "router"
    /\ pc = "Routing"
    /\ \E resp \in Responses(RawAssistantRequestType) :
        LET r == route_agent_request(resp) IN
        /\ replies' = Append(replies, resp)
        /\ IF ~r.ok
           THEN /\ pc' = "Failed"
                /\ outcome' = Raised(r.error)
                /\ UNCHANGED <<calls, route_result, warnings>>
           ELSE /\ route_result' = r.value
                /\ IF RouterGateFails(r.value)
                   THEN /\ pc' = "Rejected"
                        /\ outcome' = Returned(None)
                        /\ warnings' = Append(warnings, Warning("Low confidence score", <<>>))
                        /\ UNCHANGED calls
                   ELSE IF Dispatch(r.value.request_type) = "none"
                   THEN /\ pc' = "Unsupported"
                        /\ outcome' = Returned(None)
                        /\ warnings' = Append(warnings, Warning("Request type is not supported", <<>>))
                        /\ UNCHANGED calls
                   ELSE /\ pc' = "Handling"
                        /\ calls' = Append(calls, Call(Dispatch(r.value.request_type),
                                                       Text(r.value.description)))
                        /\ UNCHANGED <<outcome, warnings>>
    /\ UNCHANGED <<prog, user_input, chainVars, parVars>>

\* the handler's inference call returns (or raises); the handler's response is returned
RouterHandled ==
    /\ prog = "router"
    /\ pc = "Handling"
    /\ LET h == calls[Len(calls)].fn IN
       \E resp \in Responses(HandlerSchema(h)) :
        LET r == Handle(h, resp) IN
        /\ replies' = Append(replies, resp)
        /\ IF ~r.ok
           THEN /\ pc' = "Failed"
                /\ outcome' = Raised(r.error)
           ELSE /\ pc' = "Done"
                /\ outcome' = Returned(r.value)
    /\ UNCHANGED <<prog, user_input, calls, chainVars, route_result, parVars, warnings>>

-----------------------------------------------------------------------------
\* validate_request

\* the value a finished task returned (None while it has none)
TaskValue(t) == task[t].result.value

\* a callback of the given kind is in the loop's queue
Pending(kind) == \E i \in 1..Len(ready) : ready[i].cb = kind

\* validate_request runs to `await asyncio.gather(...)`: gather wraps the two
\* coroutines in tasks, whose first steps the loop is asked to run in argument
\* order, and validate_request is suspended on the gather future
ValidateRequestStart ==
    /\ prog = "parallel"
    /\ pc = "Start"
    /\ pc' = "Gathering"
    /\ ready' = [i \in 1..Len(TaskOrder) |-> Cb("step", TaskOrder[i])]
    /\ UNCHANGED <<prog, user_input, calls, replies, chainVars, route_result, task, gather,
                   outcome, warnings>>

\* first step of a gathered coroutine: it runs to its inference call, issues
\* it and is suspended on it
TaskStep(t) ==
    /\ prog = "parallel"
    /\ ready # <<>>
    /\ Head(ready) = Cb("step", t)
    /\ calls' = Append(calls, Call(t, Text(user_input)))
    /\ task' = [task EXCEPT ![t] = Awaiting]
    /\ ready' = Tail(ready)
    /\ UNCHANGED <<prog, user_input, pc, replies, chainVars, route_result, gather,
                   outcome, warnings>>

\* the loop polls its sockets once the callbacks at hand have run (both first
\* steps are at hand together): the answer to a coroutine's inference call has
\* arrived, and the loop is asked to wake the coroutine
ReplyArrives(t) ==
    /\ prog = "parallel"
    /\ task[t].st = "awaiting"
    /\ task[t].reply = NoReply
    /\ ~Pending("step")
    /\ \E resp \in Responses(TaskSchema(t)) :
        /\ replies' = Append(replies, resp)
        /\ task' = [task EXCEPT ![t].reply = resp]
    /\ ready' = Append(ready, Cb("wakeup", t))
    /\ UNCHANGED <<prog, user_input, pc, calls, chainVars, route_result, gather,
                   outcome, warnings>>

\* the coroutine is woken with the answer: it returns or raises, which
\* finishes its task; the loop is asked to run gather's _done_callback for it
TaskWakeup(t) ==
    /\ prog = "parallel"
    /\ ready # <<>>
    /\ Head(ready) = Cb("wakeup", t)
    /\ task' = [task EXCEPT ![t] = Finished(task[t].reply, RunTask(t, task[t].reply))]
    /\ ready' = Append(Tail(ready), Cb("done", t))
    /\ UNCHANGED <<prog, user_input, pc, calls, replies, chainVars, route_result, gather,
                   outcome, warnings>>

\* gather's _done_callback for a finished child: the gather future is told;
\* when that resolves it, the loop is asked to wake validate_request
GatherDoneCallback(t) ==
    /\ prog = "parallel"
    /\ ready # <<>>
    /\ Head(ready) = Cb("done", t)
    /\ LET g == GatherOnDone(gather, task[t].result) IN
        /\ gather' = g
        /\ ready' = IF gather.state = "pending" /\ g.state # "pending"
                    THEN Append(Tail(ready), Resume)
                    ELSE Tail(ready)
    /\ UNCHANGED <<prog, user_input, pc, calls, replies, chainVars, route_result, task,
                   outcome, warnings>>

\* validate_request is woken with the resolved gather future: it raises the
\* exception or combines the two results, logs, and returns
ValidateRequestResume ==
    /\ prog = "parallel"
    /\ pc = "Gathering"
    /\ ready # <<>>
    /\ Head(ready) = Resume
    /\ ready' = Tail(ready)
    /\ LET arv == TaskValue("validate_assistant_request")
           sc == TaskValue("check_security")
           r == validate_request(gather, arv, sc)
       IN
       IF ~r.ok
       THEN /\ pc' = "Failed"
            /\ outcome' = Raised(r.error)
            /\ UNCHANGED warnings
       ELSE /\ pc' = "Done"
            /\ outcome' = Returned(r.value)
            /\ warnings' = warnings \o CombineWarnings(arv, sc)
    /\ UNCHANGED <<prog, user_input, calls, replies, chainVars, route_result, task, gather>>

-----------------------------------------------------------------------------
Next ==
    \/ ChainStart
    \/ ChainValidated
    \/ ChainExtracted
    \/ ChainConfirmed
    \/ RouterStart
    \/ RouterRouted
    \/ RouterHandled
    \/ ValidateRequestStart
    \/ \E t \in Tasks : TaskStep(t)
    \/ \E t \in Tasks : ReplyArrives(t)
    \/ \E t \in Tasks : TaskWakeup(t)
    \/ \E t \in Tasks : GatherDoneCallback(t)
    \/ ValidateRequestResume

Spec == Init /\ [][Next]_vars

-----------------------------------------------------------------------------
\* Properties

\* the calls issued by the named functions
CallsBy(fns) == {i \in 1..Len(calls) : calls[i].fn \in fns}

ExtractFns == {"extract_event_details", "extract_event"}
ConfirmFns == {"generate_confirmation"}

\* a validation result is at hand in a chain
ChainHasValidation == prog \in Chains /\ validation # None

\* C1: in both chains, once the validation result fails the gate (flag false or
\* score below 0.7) the validation call is the only inference call ever issued:
\* no extraction and no confirmation call, and the chain returned None.
C1_ShortCircuit ==
    (/\ ChainHasValidation
     /\ (~IsCalendarEvent(prog, validation) \/ Lt(validation.confidence_score, Threshold)))
    => /\ CallsBy(ExtractFns \cup ConfirmFns) = {}
       /\ Len(calls) = 1
       /\ calls[1].fn = "validate_event"
       /\ pc = "Rejected"
       /\ outcome = Returned(None)

\* a chain rejected a request whose flag is true and whose score is just below 0.7
C1_Witness ==
    /\ ChainHasValidation
    /\ IsCalendarEvent(prog, validation)
    /\ validation.confidence_score = Threshold - 1
    /\ pc = "Rejected"
    /\ Len(calls) = 1

\* C2: for every validation result the chain goes on to the extraction call
\* if and only if the flag is true and the score is at least 0.7.
C2_GateBoundary ==
    ChainHasValidation
    => ((CallsBy(ExtractFns) # {})
        <=> (IsCalendarEvent(prog, validation) /\ Ge(validation.confidence_score, Threshold)))

\* C3: whatever the category, a classification with confidence below 0.7 makes
\* process_assistant_request return None with no handler invoked: the
\* classification call is the only inference call.
C3_RouterGate ==
    (/\ prog = "router"
     /\ route_result # None
     /\ Lt(route_result.confidence_score, Threshold))
    => /\ CallsBy(Handlers) = {}
       /\ Len(calls) = 1
       /\ calls[1].fn = "route_agent_request"
       /\ pc = "Rejected"
       /\ outcome = Returned(None)

\* a light_config classification with confidence 0.5 was rejected
C3_Witness ==
    /\ prog = "router"
    /\ route_result # None
    /\ route_result.request_type = "light_config"
    /\ route_result.confidence_score = 50
    /\ pc = "Rejected"

\* the classification passed the confidence check (it was not below 0.7)
RouterPassedGate ==
    prog = "router" /\ route_result # None /\ ~Lt(route_result.confidence_score, Threshold)

\* the handler registered for each routable category
HandlerTable ==
    [light_config |-> "handle_light_config",
     door_config |-> "handle_door_config",
     entertainment_config |-> "handle_entertainment_config"]

\* the classification reply names a category that is neither routable nor 'other'
ReplyCategoryUnknown ==
    /\ prog = "router"
    /\ Len(replies) >= 1
    /\ replies[1].kind = "json"
    /\ replies[1].body.request_type \notin (DOMAIN HandlerTable \cup {"other"})

\* routing determinism, with err the error an unknown category yields
Routing(err) ==
    /\ prog = "router" =>
        /\ Cardinality(CallsBy(Handlers)) <= 1
        /\ \A i \in CallsBy(Handlers) :
              /\ RouterPassedGate
              /\ route_result.request_type \in DOMAIN HandlerTable
              /\ calls[i].fn = HandlerTable[route_result.request_type]
    /\ RouterPassedGate =>
        IF route_result.request_type \in DOMAIN HandlerTable
        THEN Cardinality(CallsBy(Handlers)) = 1
        ELSE /\ route_result.request_type = "other"
             /\ CallsBy(Handlers) = {}
             /\ pc = "Unsupported"
             /\ outcome = Returned(None)
    /\ ReplyCategoryUnknown =>
        /\ CallsBy(Handlers) = {}
        /\ pc = "Failed"
        /\ outcome = Raised(err)

\* C4 (as claimed): a classification that passes the gate invokes exactly the
\* handler registered for its category, 'other' takes the fallback, no request
\* invokes two handlers or another category's handler, and a category with no
\* table entry yields the UnroutableRequest error.
C4_Original == Routing("UnroutableRequest")

\* C4 (amended): as above, except that a category outside the four declared
\* ones never reaches the dispatch: the classification call itself fails with a
\* schema violation, which is raised to the caller (the fallback returns None).
C4_RoutingDeterminism == Routing("SchemaViolation")

\* a door_config classification at exactly 0.7 was handled by handle_door_config
C4_Witness ==
    /\ RouterPassedGate
    /\ route_result.request_type = "door_config"
    /\ route_result.confidence_score = Threshold
    /\ pc = "Done"
    /\ calls[2].fn = "handle_door_config"
    /\ outcome.kind = "returned"

\* C5: a classification 'other' with confidence at or above 0.7 invokes no
\* handler, does not raise, and hands the caller an 'unsupported request type'
\* outcome that is not the outcome of the low-confidence rejection (None).
C5_FallbackReported ==
    (/\ RouterPassedGate
     /\ Ge(route_result.confidence_score, Threshold)
     /\ route_result.request_type = "other")
    => /\ CallsBy(Handlers) = {}
       /\ outcome.kind = "returned"
       /\ outcome # Returned(None)

\* the two check results validate_request combines
Arv == TaskValue("validate_assistant_request")
Sc == TaskValue("check_security")

\* both inference calls of validate_request were answered with JSON of their schemas
BothAnswered == prog = "parallel" /\ \A t \in Tasks : task[t].reply.kind = "json"

\* the pair of check results the service delivered
ArvReply == task["validate_assistant_request"].reply.body
ScReply == task["check_security"].reply.body

\* C6: for the pair of check results delivered to validate_request, the
\* combination of lines 104-108 is true if and only if is_assistant_request is
\* true, is_safe is true and confidence_score >= 0.7 (so exactly 0.7 with both
\* flags true yields true), and a result validate_request returns obeys the same.
C6_ParallelGate ==
    /\ BothAnswered =>
          (IsValid(ArvReply, ScReply)
           <=> (/\ ArvReply.is_assistant_request
                /\ ScReply.is_safe
                /\ Ge(ArvReply.confidence_score, Threshold)))
    /\ (prog = "parallel" /\ outcome.kind = "returned") =>
          (outcome.value.is_valid
           <=> (Arv.is_assistant_request /\ Sc.is_safe /\ Ge(Arv.confidence_score, Threshold)))

\* both inference calls of validate_request got a JSON reply; the
\* assistant-request check passes and the security check says unsafe
Scenario5Replies ==
    /\ prog = "parallel"
    /\ \A t \in Tasks : task[t].reply.kind = "json"
    /\ task["validate_assistant_request"].reply.body.is_assistant_request
    /\ Ge(task["validate_assistant_request"].reply.body.confidence_score, Threshold)
    /\ ~task["check_security"].reply.body.is_safe

\* C7: when both inference calls succeed, the assistant-request check passes
\* and the security check returns is_safe = false, validate_request raises
\* nothing and returns False, and non-empty risk flags are logged.
C7_Scenario5 ==
    Scenario5Replies
    => /\ outcome.kind # "raised"
       /\ pc # "Gathering" =>
            /\ outcome = Returned([type |-> "bool", is_valid |-> FALSE])
            /\ LET flags == task["check_security"].reply.body.risk_flags IN
               flags # <<>> => \E i \in 1..Len(warnings) : warnings[i].flags = flags

\* the inference call of a chain stage failed: transport failure or content
\* that does not validate (for ollama, empty content does not validate)
StageCallFailed(resp) ==
    \/ resp.kind \in {"unavailable", "malformed"}
    \/ prog = "chain1" /\ resp.kind = "empty"

StageError(resp) ==
    IF resp.kind = "unavailable" THEN "ServiceUnavailable" ELSE "SchemaViolation"

\* C8: in a chain no stage is called twice, and once the call of a stage has
\* failed with a service failure or a schema violation, that call is the last
\* one issued and the chain raised that error: it returned neither a
\* confirmation nor None.
C8_ChainFailure ==
    prog \in Chains =>
        /\ \A i, j \in 1..Len(calls) : calls[i].fn = calls[j].fn => i = j
        /\ \A i \in 1..Len(replies) :
              StageCallFailed(replies[i]) =>
                /\ i = Len(replies)
                /\ Len(calls) = i
                /\ pc = "Failed"
                /\ outcome = Raised(StageError(replies[i]))

\* the extraction call of a chain got content that does not validate
C8_Witness ==
    /\ prog \in Chains
    /\ Len(replies) = 2
    /\ replies[2].kind = "malformed"
    /\ Len(calls) = 2
    /\ outcome = Raised("SchemaViolation")

\* the coroutines of gather that raised
FailedTasks == {t \in Tasks : task[t].st = "raised"}

\* arrival position of a coroutine's reply
ReplyPos(t) == CHOOSE i \in 1..Len(replies) :
                  /\ replies[i] = task[t].reply
                  /\ \A j \in 1..(i - 1) : replies[j] # task[t].reply

\* the coroutine that raised first
FirstFailed == CHOOSE t \in FailedTasks : \A u \in FailedTasks : ReplyPos(t) <= ReplyPos(u)

\* gather's _done_callback has run for a finished coroutine
Told(t) ==
    /\ task[t].st \in {"returned", "raised"}
    /\ \A i \in 1..Len(ready) : ready[i] # Cb("done", t)

\* C9: once either coroutine of validate_request has raised, no boolean is
\* ever returned; as soon as gather has been told of a failure its future
\* holds the first failure, validate_request is woken without waiting for the
\* sibling and raises that failure, in whichever order the two calls finish.
C9_FailFast ==
    (prog = "parallel" /\ FailedTasks # {})
    => /\ outcome.kind # "returned"
       /\ (\A t \in FailedTasks : ~Told(t)) => (gather.state = "pending" /\ pc = "Gathering")
       /\ (\E t \in FailedTasks : Told(t)) =>
            /\ gather.state = "exception"
            /\ gather.exc = task[FirstFailed].result.error
            /\ pc = "Gathering" => Pending("resume")
            /\ pc # "Gathering" => (pc = "Failed" /\ outcome = Raised(gather.exc))

\* check_security returned its result first, validate_assistant_request raised
\* afterwards, and validate_request raised: the sibling's result was dropped
C9_Witness ==
    /\ prog = "parallel"
    /\ pc = "Failed"
    /\ task["check_security"].st = "returned"
    /\ task["check_security"].reply.kind = "json"
    /\ task["validate_assistant_request"].st = "raised"
    /\ replies[1] = task["check_security"].reply
    /\ outcome.kind = "raised"

\* the first reply of the request carries a confidence score outside [0, 1]
ScoreOutOfRange ==
    /\ prog \in Chains \cup {"router"}
    /\ Len(replies) >= 1
    /\ replies[1].kind = "json"
    /\ \/ Lt(replies[1].body.confidence_score, ScoreMin)
       \/ Gt(replies[1].body.confidence_score, ScoreMax)

\* C10: a confidence score outside [0, 1] never lets the chain proceed to the
\* extraction call nor the router dispatch to a handler.
C10_ConfidenceRange ==
    ScoreOutOfRange => CallsBy(ExtractFns \cup Handlers) = {}

\* the validation result of a chain passed the gate (flag true, score not below 0.7)
ChainPassedGate ==
    /\ ChainHasValidation
    /\ IsCalendarEvent(prog, validation)
    /\ ~Lt(validation.confidence_score, Threshold)

\* the stage functions in chain order
StageFns == <<{"validate_event"}, ExtractFns, ConfirmFns>>

\* C11: the stage calls of a chain are issued in the order validate, extract,
\* confirm, the chain is done only after all three were answered, and once the
\* gate has passed the chain never ends with the rejected result (None),
\* whatever the extraction and confirmation calls return.
C11_StateMachine ==
    prog \in Chains =>
        /\ Len(calls) <= 3
        /\ \A i \in 1..Len(calls) : calls[i].fn \in StageFns[i]
        /\ pc = "Done" => (Len(calls) = 3 /\ Len(replies) = 3)
        /\ pc = "Rejected" => (Len(calls) = 1 /\ ~ChainPassedGate)
        /\ ChainPassedGate => outcome # Returned(None)

\* an input derived from the validation result: a rendering of the result
\* object, or (chain1) the description it carries
ThreadedFromValidation(a) ==
    \/ a.type = "dump"
    \/ prog = "chain1" /\ a = Text(validation.description)

\* the extraction input is the raw request text
IsRawRequest(a) == a = Text(user_input)

\* output threading, with src naming where the extraction input comes from
Threading(src) ==
    /\ prog \in Chains =>
        /\ \A i \in CallsBy(ExtractFns) :
              IF src = "validation" THEN ThreadedFromValidation(calls[i].arg)
              ELSE IsRawRequest(calls[i].arg)
        /\ \A i \in CallsBy(ConfirmFns) :
              /\ calls[i].arg.type = "dump"
              /\ calls[i].arg.of = event_details.name
    /\ prog = "router" =>
        \A i \in CallsBy(Handlers) :
            /\ calls[i].arg = Text(route_result.description)
            /\ calls[i].arg # Text(user_input)

\* C12 (as claimed): the extraction call takes the validation result as its
\* input, the confirmation call takes the extraction result, and the router's
\* handler takes the cleaned description of the classification, not the raw text.
C12_Original == Threading("validation")

\* C12 (amended): the extraction call takes the raw request text (the
\* validation result only gates it); the confirmation call takes the
\* extraction result and the handler the cleaned description.
C12_OutputThreading == Threading("request")

\* a chain issued all three calls: extraction on the raw request, confirmation
\* on the extracted event e2
C12_Witness ==
    /\ prog \in Chains
    /\ Len(calls) = 3
    /\ calls[2].arg = Text(user_input)
    /\ event_details # None
    /\ event_details.name = "e2"
    /\ calls[3].arg.of = "e2"

\* the coroutines of gather whose first step has not run
NotStartedTasks == {t \in Tasks : task[t].st = "none"}

\* fan-out: validate_request issues at most one inference call per check; the
\* second is issued without waiting for the answer to the first (until both
\* are issued nothing but their first steps is at hand and neither has been
\* answered), and either may then be answered while the other is pending
FanOut ==
    /\ Len(calls) <= Cardinality(Tasks)
    /\ \A i, j \in 1..Len(calls) : calls[i].fn = calls[j].fn => i = j
    /\ {calls[i].fn : i \in 1..Len(calls)} = Tasks \ NotStartedTasks
    /\ (pc # "Start" /\ NotStartedTasks # {}) =>
          /\ {ready[i] : i \in 1..Len(ready)} = {Cb("step", t) : t \in NotStartedTasks}
          /\ \A t \in Tasks : task[t].st \in {"none", "awaiting"}
          /\ replies = <<>>
    /\ \A t \in Tasks :
          (task[t].st = "awaiting" /\ task[t].reply = NoReply /\ NotStartedTasks = {})
          => ENABLED ReplyArrives(t)

\* no inference call of validate_request is known to have failed: each is
\* unanswered or was answered with JSON of its schema
NoCallFailed == \A t \in Tasks : task[t].reply.kind \in {"none", "json"}

\* C13: validate_request issues exactly two inference calls with no ordering
\* dependency between them; unless a call fails it ends only once both have
\* completed, and then with the combined boolean, which is a function of the
\* pair of check results alone, whichever call completed first.
C13_FanOutFanIn ==
    prog = "parallel" =>
        /\ FanOut
        /\ (pc \notin {"Start", "Gathering"} /\ NoCallFailed) =>
              /\ \A t \in Tasks : task[t].st = "returned" /\ Told(t)
              /\ outcome.kind = "returned"
        /\ outcome.kind = "returned" =>
              outcome.value =
                   [type |-> "bool",
                    is_valid |-> (Arv.is_assistant_request
                                  /\ Gt(Arv.confidence_score, Threshold)
                                  /\ Sc.is_safe)]
====
